---------------------------- MODULE Spec2Model ----------------------------
(***************************************************************************)
(* Quiz PDF generator (quiz_generator_gui.py): the schema validator        *)
(* validate_quiz_schema, the story assembly of build_pdf and the three     *)
(* button handlers of App (paste_sample, open_json_file, generate_pdf).    *)
(*                                                                         *)
(* Two specifications:                                                     *)
(*   SpecCore  the pipeline validate_quiz_schema -> build_pdf applied to   *)
(*             one parsed JSON value drawn from a bounded set of shapes;   *)
(*   Spec      the window: a text buffer and the three handlers, the one   *)
(*             of generate_pdf in two steps around its save dialog.        *)
(***************************************************************************)
EXTENDS Integers, Sequences, FiniteSets, TLC

VARIABLES
    buffer,     \* App.text: the contents of the ScrolledText widget
    notice,     \* the message box raised by the last handler
    shown,      \* history: every error box raised so far, with its cause
    data,       \* the parsed JSON value handed to validate_quiz_schema
    verdict,    \* how validate_quiz_schema(data) ended
    built,      \* how build_pdf(out_path, data) ended, with its story
    phase       \* position of the pipeline / how the last handler ended

vars == <<buffer, notice, shown, data, verdict, built, phase>>

(***************************************************************************)
(* Parsed JSON values, as json.loads returns them.  Every value is a       *)
(* record of one shape; t is the Python type.                              *)
(*   "str"  : s is the text            "int"  : n is the number            *)
(*   "bool" : n is 1 (True) / 0        "None" : JSON null                  *)
(*   "list" : items are the elements                                       *)
(*   "dict" : keys are the keys in insertion order, items their values     *)
(***************************************************************************)
JNull == [t |-> "None", s |-> "", n |-> 0, keys |-> <<>>, items |-> <<>>]

JStr(x) == [t |-> "str", s |-> x, n |-> 0, keys |-> <<>>, items |-> <<>>]

JInt(i) == [t |-> "int", s |-> "", n |-> i, keys |-> <<>>, items |-> <<>>]

JBool(b) == [t |-> "bool", s |-> "", n |-> IF b THEN 1 ELSE 0, keys |-> <<>>, items |-> <<>>]

JList(xs) == [t |-> "list", s |-> "", n |-> 0, keys |-> <<>>, items |-> xs]

JDict(ks, xs) == [t |-> "dict", s |-> "", n |-> 0, keys |-> ks, items |-> xs]

\* the place of a handler-local variable that has not been assigned
Unset == [t |-> "unset", s |-> "", n |-> 0, keys |-> <<>>, items |-> <<>>]

Range(f) == {f[i] : i \in DOMAIN f}

(***************************************************************************)
(* The Python operations the validator and the assembler apply to a value  *)
(* whose type they have not checked.                                       *)
(***************************************************************************)
\* x in s for two str: s has x as a substring
Contains(x, s) ==
    \E i \in 1..(Len(s) - Len(x) + 1) : SubSeq(s, i, i + Len(x) - 1) = x

\* `k in v` for a str k: "yes", "no", or "TypeError" (v is no container)
PyIn(k, v) ==
    CASE v.t = "dict" -> IF k \in Range(v.keys) THEN "yes" ELSE "no"
      [] v.t = "list" -> IF JStr(k) \in Range(v.items) THEN "yes" ELSE "no"
      [] v.t = "str"  -> IF Contains(k, v.s) THEN "yes" ELSE "no"
      [] OTHER        -> "TypeError"

\* the value stored under key k of a dict that has it
DictGet(v, k) == v.items[CHOOSE i \in DOMAIN v.keys : v.keys[i] = k]

\* `v[k]` for a str k: the exception it raises, or "ok"
PyGetItemRaises(v, k) ==
    CASE v.t = "dict" -> IF k \in Range(v.keys) THEN "ok" ELSE "KeyError"
      [] OTHER        -> "TypeError"

\* mutant of PyGet: `v.get(k)`, whose default is None
PyGetNoDefault(v, k) == IF k \in Range(v.keys) THEN DictGet(v, k) ELSE JNull

\* `v.get(k, "")`: dict.get with the default "" of build_pdf
PyGet(v, k) == IF k \in Range(v.keys) THEN DictGet(v, k) ELSE JStr("")

(***************************************************************************)
(* str(): the display text of a value, as str() and f-strings produce it.  *)
(* repr() of a str is quoted with single quotes; the inputs hold no quote, *)
(* backslash or control character, so no escaping happens.                 *)
(***************************************************************************)
Digit(d) == SubSeq("0123456789", d + 1, d + 1)

RECURSIVE NatStr(_)
NatStr(i) == IF i < 10 THEN Digit(i) ELSE NatStr(i \div 10) \o Digit(i % 10)

IntStr(i) == IF i < 0 THEN "-" \o NatStr(-i) ELSE NatStr(i)

RECURSIVE PyRepr(_)
RECURSIVE ReprItems(_, _, _)
ReprItems(v, i, isDict) ==
    IF i > Len(v.items) THEN ""
    ELSE (IF i > 1 THEN ", " ELSE "")
         \o (IF isDict THEN "'" \o v.keys[i] \o "': " ELSE "")
         \o PyRepr(v.items[i])
         \o ReprItems(v, i + 1, isDict)

PyRepr(v) ==
    CASE v.t = "str"  -> "'" \o v.s \o "'"
      [] v.t = "int"  -> IntStr(v.n)
      [] v.t = "bool" -> IF v.n = 1 THEN "True" ELSE "False"
      [] v.t = "None" -> "None"
      [] v.t = "list" -> "[" \o ReprItems(v, 1, FALSE) \o "]"
      [] v.t = "dict" -> "{" \o ReprItems(v, 1, TRUE) \o "}"

PyStr(v) == IF v.t = "str" THEN v.s ELSE PyRepr(v)

(***************************************************************************)
(* validate_quiz_schema                                                    *)
(* An outcome is how the call ended: kind "ok" (returned True), or the     *)
(* class of the exception raised, with the message of a ValueError.  The   *)
(* interpreter's message of any other exception is not modelled.           *)
(***************************************************************************)
Returned == [kind |-> "ok", msg |-> ""]

ValueError(m) == [kind |-> "ValueError", msg |-> m]

Raised(cls) == [kind |-> cls, msg |-> ""]

NoOutcome == [kind |-> "none", msg |-> ""]

required_top == <<"title", "subtitle", "questions", "solution_table">>

option_letters == <<"A", "B", "C", "D">>

\* all(k in opts for k in ("A", "B", "C", "D")), opts being a dict
HasAllLetters(opts) == \A j \in DOMAIN option_letters : PyIn(option_letters[j], opts) = "yes"

\* mutant of CheckTop: the loop runs to its end and the last missing key is reported
RECURSIVE CheckTopLastMissing(_, _)
CheckTopLastMissing(d, i) ==
    IF i > Len(required_top) THEN Returned
    ELSE LET here == PyIn(required_top[i], d)
             later == CheckTopLastMissing(d, i + 1)
         IN  IF here = "TypeError" THEN Raised("TypeError")
             ELSE IF later.kind # "ok" THEN later
             ELSE IF here = "no" THEN ValueError("Missing top-level key: " \o required_top[i])
             ELSE Returned

\* the loop over required_top, from its i-th key on: the exception it raises, or Returned
RECURSIVE CheckTop(_, _)
CheckTop(d, i) ==
    IF i > Len(required_top) THEN Returned
    ELSE LET here == PyIn(required_top[i], d)
         IN  IF here = "TypeError" THEN Raised("TypeError")
             ELSE IF here = "no" THEN ValueError("Missing top-level key: " \o required_top[i])
             ELSE CheckTop(d, i + 1)

\* the body of the loop over the questions, for the question q numbered pos
CheckQuestion(q, pos) ==
    LET hasText == PyIn("text", q)
        getOptions == PyGetItemRaises(q, "options")
        opts == DictGet(q, "options")
    IN  IF hasText = "TypeError" THEN Raised("TypeError")
        ELSE IF hasText = "no" \/ PyIn("options", q) = "no"
             THEN ValueError("Question " \o IntStr(pos) \o " must have 'text' and 'options'")
        ELSE IF getOptions # "ok" THEN Raised(getOptions)
        ELSE IF opts.t # "dict" \/ ~HasAllLetters(opts)
             THEN ValueError("Question " \o IntStr(pos) \o " options must include A, B, C, D")
        ELSE Returned

\* mutant of CheckQuestions: enumerate without start=1, positions from 0
RECURSIVE CheckQuestionsFromZero(_, _)
CheckQuestionsFromZero(qs, i) ==
    IF i > Len(qs) THEN Returned
    ELSE LET here == CheckQuestion(qs[i], i - 1)
         IN  IF here.kind # "ok" THEN here ELSE CheckQuestionsFromZero(qs, i + 1)

\* mutant of CheckQuestions: two loops, the first over all the questions for
\* 'text' and 'options', the second for the letters
RECURSIVE FirstLoop(_, _)
FirstLoop(qs, i) ==
    IF i > Len(qs) THEN Returned
    ELSE IF PyIn("text", qs[i]) = "TypeError" THEN Raised("TypeError")
    ELSE IF PyIn("text", qs[i]) = "no" \/ PyIn("options", qs[i]) = "no"
         THEN ValueError("Question " \o IntStr(i) \o " must have 'text' and 'options'")
    ELSE FirstLoop(qs, i + 1)

RECURSIVE SecondLoop(_, _)
SecondLoop(qs, i) ==
    IF i > Len(qs) THEN Returned
    ELSE LET here == CheckQuestion(qs[i], i)
         IN  IF here.kind # "ok" THEN here ELSE SecondLoop(qs, i + 1)

CheckQuestionsTwoLoops(qs, i) ==
    LET first == FirstLoop(qs, i)
    IN  IF first.kind # "ok" THEN first ELSE SecondLoop(qs, i)

\* the loop over enumerate(data["questions"], start=1), from the i-th element
\* of the list on (sequences are 1-based: the element's index is its number)
RECURSIVE CheckQuestions(_, _)
CheckQuestions(qs, i) ==
    IF i > Len(qs) THEN Returned
    ELSE LET here == CheckQuestion(qs[i], i)
         IN  IF here.kind # "ok" THEN here ELSE CheckQuestions(qs, i + 1)

\* mutant of CheckBody: the test of len(data["questions"]) == 0 is left out
CheckBodyAllowsEmpty(d) ==
    LET getQuestions == PyGetItemRaises(d, "questions")
        questions == DictGet(d, "questions")
        loop == CheckQuestions(questions.items, 1)
    IN  IF getQuestions # "ok" THEN Raised(getQuestions)
        ELSE IF questions.t # "list"
             THEN ValueError("questions must be a non-empty list")
        ELSE IF loop.kind # "ok" THEN loop
        ELSE IF DictGet(d, "solution_table").t # "list"
             THEN ValueError("solution_table must be a list")
        ELSE Returned

\* the statements after the loop over required_top
CheckBody(d) ==
    LET getQuestions == PyGetItemRaises(d, "questions")
        questions == DictGet(d, "questions")
        loop == CheckQuestions(questions.items, 1)
    IN  IF getQuestions # "ok" THEN Raised(getQuestions)
        ELSE IF questions.t # "list" \/ Len(questions.items) = 0
             THEN ValueError("questions must be a non-empty list")
        ELSE IF loop.kind # "ok" THEN loop
        ELSE IF DictGet(d, "solution_table").t # "list"
             THEN ValueError("solution_table must be a list")
        ELSE Returned

validate_quiz_schema(d) ==
    LET top == CheckTop(d, 1)
    IN  IF top.kind # "ok" THEN top ELSE CheckBody(d)

(***************************************************************************)
(* build_pdf: the story handed to SimpleDocTemplate.build.  A block is a   *)
(* platypus flowable: b its class, style the name of its ParagraphStyle    *)
(* (the height of a Spacer), content the value given to Paragraph (the     *)
(* value itself for title and subtitle, the formatted text otherwise) and  *)
(* rows the data of a Table.                                               *)
(***************************************************************************)
Spacer(h) == [b |-> "Spacer", style |-> h, content |-> JStr(""), rows |-> <<>>]

Paragraph(v, st) == [b |-> "Paragraph", style |-> st, content |-> v, rows |-> <<>>]

PageBreak == [b |-> "PageBreak", style |-> "", content |-> JStr(""), rows |-> <<>>]

Table(td) == [b |-> "Table", style |-> "grid", content |-> JStr(""), rows |-> td]

\* how an assembly step ended: kind "ok" with the blocks (rows) it made, or
\* the class of the exception it raised
Made(xs) == [kind |-> "ok", story |-> xs]

Failed(cls) == [kind |-> cls, story |-> <<>>]

NotBuilt == [kind |-> "none", story |-> <<>>]

\* story lines 129-136: the title page and the heading of the questions
TitlePage(d) ==
    LET getTitle == PyGetItemRaises(d, "title")
        getSubtitle == PyGetItemRaises(d, "subtitle")
    IN  IF getTitle # "ok" THEN Failed(getTitle)
        ELSE IF getSubtitle # "ok" THEN Failed(getSubtitle)
        ELSE Made(<< Spacer("6cm"),
                     Paragraph(DictGet(d, "title"), "TitleCentered"),
                     Paragraph(DictGet(d, "subtitle"), "SubtitleCentered"),
                     PageBreak,
                     Paragraph(JStr("Questions"), "Heading2"),
                     Spacer("6") >>)

\* mutant of OptionParagraphs: `for k, v in opts.items()`, the options in
\* the insertion order of the mapping
RECURSIVE OptionParagraphsInKeyOrder(_, _)
OptionParagraphsInKeyOrder(opts, j) ==
    IF opts.t # "dict" THEN Failed("AttributeError")
    ELSE IF j > Len(opts.keys) THEN Made(<<>>)
    ELSE Made(<< Paragraph(JStr(opts.keys[j] \o ") " \o PyStr(opts.items[j])), "Option") >>
              \o OptionParagraphsInKeyOrder(opts, j + 1).story)

\* the four option paragraphs, from the j-th letter on
RECURSIVE OptionParagraphs(_, _)
OptionParagraphs(opts, j) ==
    IF j > Len(option_letters) THEN Made(<<>>)
    ELSE LET getOption == PyGetItemRaises(opts, option_letters[j])
             later == OptionParagraphs(opts, j + 1)
         IN  IF getOption # "ok" THEN Failed(getOption)
             ELSE IF later.kind # "ok" THEN later
             ELSE Made(<< Paragraph(JStr(option_letters[j] \o ") "
                                         \o PyStr(DictGet(opts, option_letters[j]))),
                                    "Option") >>
                       \o later.story)

\* the body of the loop over the questions, for the question q numbered idx
QuestionGroup(q, idx) ==
    LET getText == PyGetItemRaises(q, "text")
        getOptions == PyGetItemRaises(q, "options")
        options == OptionParagraphs(DictGet(q, "options"), 1)
    IN  IF getText # "ok" THEN Failed(getText)
        ELSE IF getOptions # "ok" THEN Failed(getOptions)
        ELSE IF options.kind # "ok" THEN options
        ELSE Made(<< Paragraph(JStr(IntStr(idx) \o ". " \o PyStr(DictGet(q, "text"))),
                               "Question") >>
                  \o options.story
                  \o << Spacer("4") >>)

\* the loop over enumerate(data["questions"], start=1), from the i-th element on
RECURSIVE QuestionGroups(_, _)
QuestionGroups(qs, i) ==
    IF i > Len(qs) THEN Made(<<>>)
    ELSE LET here == QuestionGroup(qs[i], i)
             later == QuestionGroups(qs, i + 1)
         IN  IF here.kind # "ok" THEN here
             ELSE IF later.kind # "ok" THEN later
             ELSE Made(here.story \o later.story)

\* `for ... in v`: the values the loop visits, when v is iterable
Iterable(v) == v.t \in {"list", "dict", "str"}

Iterate(v) ==
    CASE v.t = "list" -> v.items
      [] v.t = "dict" -> [i \in DOMAIN v.keys |-> JStr(v.keys[i])]
      [] v.t = "str"  -> [i \in 1..Len(v.s) |-> JStr(SubSeq(v.s, i, i))]

table_header == << "#", "Answer", "Explanation" >>

\* one row of table_data
SolutionRow(row) ==
    << PyStr(PyGet(row, "number")), PyStr(PyGet(row, "answer")), PyStr(PyGet(row, "explanation")) >>

\* the loop over the solution table, from the i-th row on
RECURSIVE SolutionRows(_, _)
SolutionRows(rows, i) ==
    IF i > Len(rows) THEN Made(<<>>)
    ELSE LET later == SolutionRows(rows, i + 1)
         IN  IF rows[i].t # "dict" THEN Failed("AttributeError")
             ELSE IF later.kind # "ok" THEN later
             ELSE Made(<< SolutionRow(rows[i]) >> \o later.story)

\* story lines 150-171: heading and table of the solutions
SolutionTable(d) ==
    LET present == "solution_table" \in Range(d.keys)
        table_data == SolutionRows(IF present THEN Iterate(DictGet(d, "solution_table"))
                                   ELSE <<>>, 1)
    IN  IF d.t # "dict" THEN Failed("AttributeError")
        ELSE IF present /\ ~Iterable(DictGet(d, "solution_table")) THEN Failed("TypeError")
        ELSE IF table_data.kind # "ok" THEN table_data
        ELSE Made(<< Paragraph(JStr("Solution Table"), "Heading2"),
                     Table(<< table_header >> \o table_data.story) >>)

\* the story of build_pdf, lines 126-171
Story(d) ==
    LET front == TitlePage(d)
        getQuestions == PyGetItemRaises(d, "questions")
        groups == QuestionGroups(Iterate(DictGet(d, "questions")), 1)
        back == SolutionTable(d)
    IN  IF front.kind # "ok" THEN front
        ELSE IF getQuestions # "ok" THEN Failed(getQuestions)
        ELSE IF ~Iterable(DictGet(d, "questions")) THEN Failed("TypeError")
        ELSE IF groups.kind # "ok" THEN groups
        ELSE IF back.kind # "ok" THEN back
        ELSE Made(front.story \o groups.story \o << PageBreak >> \o back.story)

\* build_pdf(out_path, d): the story, then SimpleDocTemplate(...).build(story),
\* which writes the file and ends as the renderer and the file system decide (io)
build_pdf(d, io) ==
    LET story == Story(d)
    IN  IF story.kind # "ok" THEN story
        ELSE IF io # "ok" THEN [kind |-> io, story |-> story.story]
        ELSE story

(***************************************************************************)
(* SAMPLE_TEMPLATE.  The en dash of the title and the non-breaking hyphens *)
(* of two texts are written "-": a TLA+ string holds ASCII only.           *)
(***************************************************************************)
SampleQuestion(text, a, b, c, d) ==
    JDict(<<"text", "options">>,
          << JStr(text), JDict(<<"A", "B", "C", "D">>, <<JStr(a), JStr(b), JStr(c), JStr(d)>>) >>)

SampleRow(num, ans, exp) ==
    JDict(<<"number", "answer", "explanation">>, <<JInt(num), JStr(ans), JStr(exp)>>)

SAMPLE_TEMPLATE ==
    JDict(<<"title", "subtitle", "questions", "solution_table">>,
      << JStr("Networking - Practice Quiz (5 Questions)"),
         JStr("Sample: Basic Concepts"),
         JList(<<
           SampleQuestion("Which OSI layer is responsible for routing?",
                          "Physical", "Network", "Transport", "Application"),
           SampleQuestion("Which protocol translates domain names to IP addresses?",
                          "HTTP", "DNS", "FTP", "SSH"),
           SampleQuestion("Which device operates primarily at Layer 2 of the OSI model?",
                          "Router", "Switch", "Firewall", "Server"),
           SampleQuestion("Which IP version uses 128-bit addresses?",
                          "IPv4", "IPv6", "IPX", "ARP"),
           SampleQuestion("Which transport protocol provides reliable, connection-oriented delivery?",
                          "ICMP", "UDP", "TCP", "ARP") >>),
         JList(<<
           SampleRow(1, "B", "Routing happens at the OSI Network (Layer 3)."),
           SampleRow(2, "B", "DNS resolves domain names to IP addresses."),
           SampleRow(3, "B", "Switches primarily operate at Layer 2 (Data Link)."),
           SampleRow(4, "B", "IPv6 uses 128-bit addresses."),
           SampleRow(5, "C", "TCP is reliable and connection-oriented.") >>) >>)

(***************************************************************************)
(* The parsed values the pipeline is applied to: JSON values of every      *)
(* top-level type, and objects over every subset of the required keys      *)
(* whose questions and solution_table range over lists (up to the bounds)  *)
(* of well-formed and ill-formed elements, and over non-lists.             *)
(***************************************************************************)
MaxQuestions == 3

MaxRows == 2

SeqsUpTo(S, n) == UNION {[1..k -> S] : k \in 0..n}

GoodOptions == JDict(<<"A", "B", "C", "D">>, <<JStr("a"), JStr("b"), JStr("c"), JStr("d")>>)

\* the four letters in another insertion order, with a fifth key
ShuffledOptions ==
    JDict(<<"D", "E", "B", "A", "C">>, <<JStr("d"), JStr("e"), JInt(2), JStr("a"), JNull>>)

QuestionElems ==
    { JDict(<<"text", "options">>, <<JStr("Q"), GoodOptions>>),
      JDict(<<"options", "text">>, <<ShuffledOptions, JInt(7)>>),
      JDict(<<"options">>, <<GoodOptions>>),
      JDict(<<"text">>, <<JStr("Q")>>),
      JDict(<<"text", "options">>,
            <<JStr("Q"), JDict(<<"B", "C", "D">>, <<JStr("b"), JStr("c"), JStr("d")>>)>>),
      JDict(<<"text", "options">>, <<JStr("Q"), JStr("ABCD")>>),
      JDict(<<"text", "options">>, <<JStr("Q"), JNull>>),
      JInt(7),
      JStr("text and options"),
      JList(<<JStr("text")>>) }

RowElems ==
    { JDict(<<"number", "answer", "explanation">>, <<JInt(1), JStr("B"), JStr("why")>>),
      JDict(<<"answer", "number">>, <<JNull, JStr("x1")>>),
      JDict(<<"explanation">>, <<JBool(TRUE)>>),
      JDict(<<>>, <<>>),
      JInt(1),
      JStr("row") }

QuestionVals ==
    {JList(qs) : qs \in SeqsUpTo(QuestionElems, MaxQuestions)}
        \cup {JNull, JStr("questions"), JDict(<<>>, <<>>)}

TableVals ==
    {JList(rs) : rs \in SeqsUpTo(RowElems, MaxRows)} \cup {JNull, JStr("rows"), JDict(<<>>, <<>>)}

FewQuestionVals ==
    { JList(<<>>),
      JList(<<JDict(<<"text", "options">>, <<JStr("Q"), GoodOptions>>)>>),
      JList(<<JDict(<<"text">>, <<JStr("Q")>>)>>),
      JNull }

FewTableVals ==
    { JList(<<>>),
      JList(<<JDict(<<"number", "answer", "explanation">>, <<JInt(1), JStr("B"), JStr("why")>>)>>),
      JList(<<JInt(1)>>),
      JNull }

\* the object with the keys ks (in that order) of required_top
QuizObject(ks, qv, tv) ==
    JDict(ks, [i \in DOMAIN ks |->
                 CASE ks[i] = "title"          -> JStr("T")
                   [] ks[i] = "subtitle"       -> JStr("S")
                   [] ks[i] = "questions"      -> qv
                   [] ks[i] = "solution_table" -> tv])

\* the subsequences of a sequence of four keys, and of its reverse
KeyOrders ==
    LET all == <<"title", "subtitle", "questions", "solution_table">>
        Pick(mask) == SelectSeq(all, LAMBDA k : k \in mask)
        Rev(sq) == [i \in DOMAIN sq |-> sq[Len(sq) + 1 - i]]
    IN  UNION {{Pick(mask), Rev(Pick(mask))} : mask \in SUBSET Range(all)}

NonObjects ==
    { JNull, JInt(42), JBool(TRUE), JList(<<>>),
      JStr("title"), JStr("subtitle questions solution_table"),
      JList(<<JStr("title"), JStr("subtitle"), JStr("questions"), JStr("solution_table")>>),
      JList(<<JStr("title"), JInt(1)>>) }

Inputs ==
    NonObjects
    \cup {SAMPLE_TEMPLATE}
    \cup {QuizObject(ks, qv, tv) : ks \in KeyOrders, qv \in FewQuestionVals, tv \in FewTableVals}
    \cup {QuizObject(required_top, qv, tv) : qv \in QuestionVals, tv \in FewTableVals}
    \cup {QuizObject(required_top, qv, tv) : qv \in FewQuestionVals, tv \in TableVals}

(***************************************************************************)
(* SpecCore: the pipeline of generate_pdf after parsing, on one input.     *)
(***************************************************************************)
NoNotice == [icon |-> "none", title |-> "", lead |-> "", detail |-> ""]

InitCore ==
    /\ data \in Inputs
    /\ phase = "parsed"
    /\ verdict = NoOutcome
    /\ built = NotBuilt
    /\ buffer = ""
    /\ notice = NoNotice
    /\ shown = {}

\* line 237: validate_quiz_schema(data)
Validate ==
    /\ phase = "parsed"
    /\ verdict' = validate_quiz_schema(data)
    /\ phase' = CASE verdict'.kind = "ok" -> "validated"
                  [] verdict'.kind = "ValueError" -> "rejected"
                  [] OTHER -> "crashed"
    /\ UNCHANGED <<data, built, buffer, notice, shown>>

\* the outcomes of SimpleDocTemplate.build: the file is written, or the
\* file system refuses
RenderOutcomes == {"ok", "OSError"}

\* line 251: build_pdf(out_path, data), reached only past the validation
Assemble ==
    /\ phase = "validated"
    /\ \E io \in RenderOutcomes : built' = build_pdf(data, io)
    /\ phase' = IF built'.kind = "ok" THEN "assembled" ELSE "failed"
    /\ UNCHANGED <<data, verdict, buffer, notice, shown>>

NextCore == Validate \/ Assemble

SpecCore == InitCore /\ [][NextCore]_vars

(***************************************************************************)
(* The window.  A text is a str.  json.dumps(SAMPLE_TEMPLATE,              *)
(* ensure_ascii=False, indent=2) is computed as the library lays a value   *)
(* out; json.loads is the library's parser, modelled on the texts of the   *)
(* corpus: the layout of a document of Documents parses to that document,  *)
(* any other text of the corpus is malformed.                              *)
(***************************************************************************)
RECURSIVE Spaces(_)
Spaces(k) == IF k = 0 THEN "" ELSE " " \o Spaces(k - 1)

RECURSIVE json_dumps(_, _)
RECURSIVE DumpItems(_, _, _)
DumpItems(v, i, level) ==
    IF i > Len(v.items) THEN ""
    ELSE (IF i > 1 THEN ",\n" ELSE "")
         \o Spaces(2 * level)
         \o (IF v.t = "dict" THEN "\"" \o v.keys[i] \o "\": " ELSE "")
         \o json_dumps(v.items[i], level)
         \o DumpItems(v, i + 1, level)

\* the layout of v with indent=2, v standing at nesting depth level - 1
json_dumps(v, level) ==
    CASE v.t = "str"  -> "\"" \o v.s \o "\""
      [] v.t = "int"  -> IntStr(v.n)
      [] v.t = "bool" -> IF v.n = 1 THEN "true" ELSE "false"
      [] v.t = "None" -> "null"
      [] v.t = "list" -> IF v.items = <<>> THEN "[]"
                         ELSE "[\n" \o DumpItems(v, 1, level + 1) \o "\n" \o Spaces(2 * level) \o "]"
      [] v.t = "dict" -> IF v.items = <<>> THEN "{}"
                         ELSE "{\n" \o DumpItems(v, 1, level + 1) \o "\n" \o Spaces(2 * level) \o "}"

SampleText == json_dumps(SAMPLE_TEMPLATE, 0)

\* str.strip() for the white space of the corpus: blanks and newlines
IsSpace(c) == c \in {" ", "\n", "\t", "\r"}

RECURSIVE LStrip(_)
LStrip(x) == IF x # "" /\ IsSpace(SubSeq(x, 1, 1)) THEN LStrip(SubSeq(x, 2, Len(x))) ELSE x

RECURSIVE RStrip(_)
RStrip(x) ==
    IF x # "" /\ IsSpace(SubSeq(x, Len(x), Len(x))) THEN RStrip(SubSeq(x, 1, Len(x) - 1)) ELSE x

Strip(x) == LET right == RStrip(x) IN LStrip(right)

\* the documents the user has at hand: a number, an object that is no quiz,
\* a quiz, a quiz whose solution table holds a number, and the sample
OneQuestion == JList(<<JDict(<<"text", "options">>, <<JStr("Q"), GoodOptions>>)>>)

Documents ==
    { JInt(42),
      JDict(<<"title">>, <<JStr("T")>>),
      QuizObject(required_top, OneQuestion, JList(<<>>)),
      QuizObject(required_top, OneQuestion, JList(<<JInt(1)>>)),
      SAMPLE_TEMPLATE }

\* the text of each document, as json.dumps lays it out
DocumentText == [v \in Documents |-> json_dumps(v, 0)]

\* the texts of the files the user may open
Texts == {"", "  \n", "{\"title\": ", "[1, 2"} \cup Range(DocumentText)

\* json.loads(text): the value, or the JSONDecodeError
json_loads(text) ==
    IF \E v \in Documents : DocumentText[v] = text
    THEN [kind |-> "ok", value |-> CHOOSE v \in Documents : DocumentText[v] = text]
    ELSE [kind |-> "JSONDecodeError", value |-> Unset]

\* what the file dialog and the file system hand to open_json_file: no path
\* (the dialog was cancelled), a file that cannot be read, or a file's text
Picks ==
    {[path |-> FALSE, readable |-> FALSE, content |-> ""],
     [path |-> TRUE, readable |-> FALSE, content |-> ""]}
        \cup {[path |-> TRUE, readable |-> TRUE, content |-> t] : t \in Texts}

\* messagebox.showerror / showwarning / showinfo: the icon, the title and the
\* fixed lead of the message; detail is the text of the exception (the
\* reason of the validator's ValueError; for any other exception its class
\* stands for the interpreter's text)
MessageBox(icon, title, lead, detail) ==
    [icon |-> icon, title |-> title, lead |-> lead, detail |-> detail]

\* the record kept of a showerror box: the handler, what went wrong ("parse":
\* json.loads raised; "schema": the validator raised its ValueError; "render":
\* the renderer or the file system failed; "crash": any other exception of the
\* validator or of the assembly), and what the box looks like apart from the
\* text of the exception
Shown(handler, cause, box) ==
    [handler |-> handler, cause |-> cause, icon |-> box.icon, title |-> box.title,
     lead |-> box.lead]

ExceptionText(o) == IF o.kind = "ValueError" THEN o.msg ELSE o.kind

\* The handlers run one at a time on Tk's event loop.  While generate_pdf
\* waits in asksaveasfilename (phase "gen_save_dialog") the file dialog holds
\* the grab of the application: no button and no key press reaches the main
\* window, so no other handler and no edit runs until the dialog is answered.

\* App.__init__: the sample is loaded into the text area
Init ==
    /\ buffer = SampleText
    /\ notice = NoNotice
    /\ shown = {}
    /\ data = Unset
    /\ verdict = NoOutcome
    /\ built = NotBuilt
    /\ phase = "started"

paste_sample ==
    /\ phase # "gen_save_dialog"
    /\ buffer' = SampleText
    /\ notice' = NoNotice
    /\ phase' = "pasted"
    /\ UNCHANGED <<shown, data, verdict, built>>

\* line 202: the text area is an editable widget; between two clicks the
\* user may type or paste any text into it
edit_text ==
    /\ phase # "gen_save_dialog"
    /\ \E t \in Texts : t # buffer /\ buffer' = t
    /\ notice' = NoNotice
    /\ phase' = "edited"
    /\ UNCHANGED <<shown, data, verdict, built>>

\* mutant of OpenResult: the text area is filled before the text is parsed
OpenResultFillsFirst(buf, pick) ==
    IF ~pick.path THEN [buffer |-> buf, notice |-> NoNotice, phase |-> "open_cancelled"]
    ELSE IF ~pick.readable
         THEN [buffer |-> buf, phase |-> "open_failed",
               notice |-> MessageBox("error", "Error", "Failed to open/parse JSON:", "OSError")]
    ELSE IF json_loads(pick.content).kind # "ok"
         THEN [buffer |-> pick.content, phase |-> "open_failed",
               notice |-> MessageBox("error", "Error", "Failed to open/parse JSON:",
                                     json_loads(pick.content).kind)]
    ELSE [buffer |-> pick.content, notice |-> NoNotice, phase |-> "opened"]

\* the body of open_json_file for one pick of the dialog: the new buffer,
\* the message box and how the handler ended
OpenResult(buf, pick) ==
    IF ~pick.path THEN [buffer |-> buf, notice |-> NoNotice, phase |-> "open_cancelled"]
    ELSE IF ~pick.readable
         THEN [buffer |-> buf, phase |-> "open_failed",
               notice |-> MessageBox("error", "Error", "Failed to open/parse JSON:", "OSError")]
    ELSE IF json_loads(pick.content).kind # "ok"
         THEN [buffer |-> buf, phase |-> "open_failed",
               notice |-> MessageBox("error", "Error", "Failed to open/parse JSON:",
                                     json_loads(pick.content).kind)]
    ELSE [buffer |-> pick.content, notice |-> NoNotice, phase |-> "opened"]

open_json_file ==
    /\ phase # "gen_save_dialog"
    /\ \E pick \in Picks :
        /\ buffer' = OpenResult(buffer, pick).buffer
        /\ notice' = OpenResult(buffer, pick).notice
        /\ phase' = OpenResult(buffer, pick).phase
        /\ shown' = IF phase' = "open_failed"
                    THEN shown \cup {Shown("open_json_file",
                                           IF pick.readable THEN "parse" ELSE "io", notice')}
                    ELSE shown
    /\ UNCHANGED <<data, verdict, built>>

\* the message boxes of generate_pdf
EmptyBox == MessageBox("warning", "Empty", "Please paste a JSON object first.", "")

\* line 239, the handler of the one try block around json.loads and
\* validate_quiz_schema
InvalidBox(detail) ==
    MessageBox("error", "Invalid JSON",
               "The JSON is invalid or does not match the expected schema:", detail)

SuccessBox == MessageBox("info", "Success", "PDF saved:", "")

RenderBox(detail) == MessageBox("error", "Error", "Failed to generate PDF:", detail)

\* generate_pdf from the click to line 242 (lines 231-246): the buffer is
\* read, parsed and validated; the handler then either ends with a message
\* box or blocks in asksaveasfilename, holding the parsed data
generate_pdf ==
    /\ phase # "gen_save_dialog"
    /\ LET raw == Strip(buffer \o "\n")
           parsed == json_loads(raw)
           checked == validate_quiz_schema(parsed.value)
       IN  /\ buffer' = buffer
           /\ built' = NotBuilt
           /\ IF raw = ""
              THEN /\ notice' = EmptyBox
                   /\ phase' = "gen_empty"
                   /\ shown' = shown
                   /\ data' = Unset /\ verdict' = NoOutcome
              ELSE IF parsed.kind # "ok"
              THEN /\ notice' = InvalidBox(parsed.kind)
                   /\ phase' = "gen_parse_error"
                   /\ shown' = shown \cup {Shown("generate_pdf", "parse", notice')}
                   /\ data' = Unset /\ verdict' = NoOutcome
              ELSE IF checked.kind # "ok"
              THEN /\ notice' = InvalidBox(ExceptionText(checked))
                   /\ phase' = "gen_schema_error"
                   /\ shown' = shown \cup {Shown("generate_pdf",
                                                 IF checked.kind = "ValueError" THEN "schema"
                                                 ELSE "crash", notice')}
                   /\ data' = parsed.value /\ verdict' = checked
              ELSE /\ notice' = NoNotice
                   /\ phase' = "gen_save_dialog"
                   /\ shown' = shown
                   /\ data' = parsed.value /\ verdict' = checked

\* generate_pdf from the answer of the save dialog on (lines 247-255), for
\* one answer (saveAs: a path was chosen) and one outcome io of the renderer:
\* the PDF is built from the data parsed before the dialog opened
generate_pdf_resume ==
    /\ phase = "gen_save_dialog"
    /\ \E saveAs \in BOOLEAN, io \in RenderOutcomes :
        LET result == build_pdf(data, io)
        IN  IF ~saveAs
            THEN /\ notice' = NoNotice
                 /\ phase' = "gen_cancelled"
                 /\ shown' = shown
                 /\ built' = NotBuilt
            ELSE IF result.kind # "ok"
            THEN /\ notice' = RenderBox(result.kind)
                 /\ phase' = "gen_render_error"
                 /\ shown' = shown \cup {Shown("generate_pdf",
                                               IF result.kind = "OSError" THEN "render"
                                               ELSE "crash", notice')}
                 /\ built' = result
            ELSE /\ notice' = SuccessBox
                 /\ phase' = "gen_saved"
                 /\ shown' = shown
                 /\ built' = result
    /\ UNCHANGED <<buffer, data, verdict>>

Next == paste_sample \/ edit_text \/ open_json_file \/ generate_pdf \/ generate_pdf_resume

Spec == Init /\ [][Next]_vars

(***************************************************************************)
(* Properties of validate_quiz_schema, under SpecCore.                     *)
(* The vocabulary of the checks is restated here from their description,   *)
(* not from the operators above.                                           *)
(***************************************************************************)
Keys(v) == Range(v.keys)

TopKeys == {"title", "subtitle", "questions", "solution_table"}

Letters == {"A", "B", "C", "D"}

Validated == phase # "parsed"

\* a mapping with the four top-level keys
HasTopKeys(d) == d.t = "dict" /\ TopKeys \subseteq Keys(d)

QuestionsOf(d) == DictGet(d, "questions").items

\* the two reasons that name the position i of a question
Reason3(i) == ValueError("Question " \o IntStr(i) \o " must have 'text' and 'options'")

Reason4(i) == ValueError("Question " \o IntStr(i) \o " options must include A, B, C, D")

\* check 3 of a question: it has both keys
FailsCheck3(q) == q.t # "dict" \/ ~({"text", "options"} \subseteq Keys(q))

\* check 4 of a question that passes check 3: its options is a mapping with the four letters
FailsCheck4(q) ==
    /\ ~FailsCheck3(q)
    /\ \/ DictGet(q, "options").t # "dict"
       \/ ~(Letters \subseteq Keys(DictGet(q, "options")))

\* a question missing a letter in its options, or whose options is no mapping
Offends(q) == q.t = "dict" /\ ("options" \notin Keys(q) \/ FailsCheck4(q))

First(S) == CHOOSE i \in S : \A j \in S : i <= j

\* C2: a mapping lacking some required top-level key is rejected with
\* 'Missing top-level key: <k>', k the first missing key in the order title,
\* subtitle, questions, solution_table, whatever the other fields hold.
C2_FirstMissingKey ==
    LET order == <<"title", "subtitle", "questions", "solution_table">>
        missing == {i \in 1..4 : order[i] \notin Keys(data)}
    IN  (Validated /\ data.t = "dict" /\ missing # {})
            => verdict = ValueError("Missing top-level key: " \o order[First(missing)])

C2_Witness ==
    /\ phase = "rejected"
    /\ data.t = "dict"
    /\ Keys(data) = {"title", "questions"}
    /\ verdict.msg = "Missing top-level key: subtitle"

\* C3 as stated: whenever some question of a quiz (a mapping with the four
\* keys whose questions is a list of mappings) offends, the validator fails
\* with a reason naming the position of the first offending question.
C3_Original ==
    LET qs == QuestionsOf(data)
        off == {i \in DOMAIN qs : Offends(qs[i])}
    IN  (/\ Validated /\ HasTopKeys(data)
         /\ DictGet(data, "questions").t = "list"
         /\ \A i \in DOMAIN qs : qs[i].t = "dict"
         /\ off # {})
            => verdict \in {Reason3(First(off)), Reason4(First(off))}

\* C3 amended: the same, provided every question before the first offending
\* one is a mapping that has the key 'text'.
C3_FirstOffendingPosition ==
    LET qs == QuestionsOf(data)
        off == {i \in DOMAIN qs : Offends(qs[i])}
    IN  (/\ Validated /\ HasTopKeys(data)
         /\ DictGet(data, "questions").t = "list"
         /\ off # {}
         /\ \A j \in 1..(First(off) - 1) : qs[j].t = "dict" /\ "text" \in Keys(qs[j]))
            => verdict \in {Reason3(First(off)), Reason4(First(off))}

C3_Witness ==
    /\ phase = "rejected"
    /\ HasTopKeys(data)
    /\ DictGet(data, "questions").t = "list"
    /\ Len(QuestionsOf(data)) = 3
    /\ ~Offends(QuestionsOf(data)[1])
    /\ Offends(QuestionsOf(data)[2])
    /\ Offends(QuestionsOf(data)[3])
    /\ verdict = Reason4(2)

\* C4 as stated: check 3 is decided over all the questions before check 4 is
\* decided for any: when some question fails check 3, the reason is check 3's
\* for the first such question, also when an earlier question fails check 4.
C4_Original ==
    LET qs == QuestionsOf(data)
        bad3 == {i \in DOMAIN qs : FailsCheck3(qs[i])}
    IN  (/\ Validated /\ HasTopKeys(data)
         /\ DictGet(data, "questions").t = "list"
         /\ \A i \in DOMAIN qs : qs[i].t = "dict"
         /\ bad3 # {})
            => verdict = Reason3(First(bad3))

\* the reason of the first failing check of a mapping d, in the order: check
\* 1, check 2, then question by question check 3 and check 4, then check 5
FirstFailingCheck(d) ==
    LET order == <<"title", "subtitle", "questions", "solution_table">>
        missing == {i \in 1..4 : order[i] \notin Keys(d)}
        qv == DictGet(d, "questions")
        bad == {i \in DOMAIN qv.items : FailsCheck3(qv.items[i]) \/ FailsCheck4(qv.items[i])}
    IN  IF missing # {} THEN ValueError("Missing top-level key: " \o order[First(missing)])
        ELSE IF qv.t # "list" \/ qv.items = <<>>
             THEN ValueError("questions must be a non-empty list")
        ELSE IF bad # {}
             THEN IF FailsCheck3(qv.items[First(bad)]) THEN Reason3(First(bad))
                  ELSE Reason4(First(bad))
        ELSE IF DictGet(d, "solution_table").t # "list"
             THEN ValueError("solution_table must be a list")
        ELSE Returned

\* C4 amended: for a mapping, whenever the validator accepts or reports a
\* reason, it is that of the first failing check in the order 1, 2, then
\* checks 3 and 4 question by question, then 5; so when question i fails only
\* check 4 and a later question fails check 3, the reason is check 4's for i.
C4_InterleavedOrder ==
    (Validated /\ data.t = "dict" /\ verdict.kind \in {"ok", "ValueError"})
        => verdict = FirstFailingCheck(data)

C4_Witness ==
    /\ phase = "rejected"
    /\ HasTopKeys(data)
    /\ DictGet(data, "questions").t = "list"
    /\ Len(QuestionsOf(data)) >= 2
    /\ FailsCheck4(QuestionsOf(data)[1])
    /\ FailsCheck3(QuestionsOf(data)[2])
    /\ verdict = Reason4(1)

\* C5 as stated: an empty questions list is rejected with the non-empty
\* reason whatever the other fields, a missing title or subtitle included.
C5_Original ==
    (/\ Validated /\ data.t = "dict" /\ "questions" \in Keys(data)
     /\ DictGet(data, "questions") = JList(<<>>))
        => verdict = ValueError("questions must be a non-empty list")

\* C5 amended: a mapping that has the four top-level keys and whose questions
\* is an empty list is rejected with the non-empty reason, whatever the
\* values of the other fields (a solution_table that is no list included).
C5_EmptyQuestions ==
    (Validated /\ HasTopKeys(data) /\ DictGet(data, "questions") = JList(<<>>))
        => verdict = ValueError("questions must be a non-empty list")

C5_Witness ==
    /\ phase = "rejected"
    /\ HasTopKeys(data)
    /\ DictGet(data, "questions") = JList(<<>>)
    /\ DictGet(data, "solution_table").t # "list"
    /\ verdict.msg = "questions must be a non-empty list"

\* C6: on every parsed JSON value the validator either accepts or fails
\* with a ValueError of one of its checks, never with another exception.
C6_Total == Validated => verdict.kind \in {"ok", "ValueError"}

\* C1: once the validator has accepted a value, the story assembly of
\* build_pdf ends without a missing-key or shape error.
C1_SafeAssembly ==
    phase \in {"assembled", "failed"} => built.kind \notin {"KeyError", "TypeError", "AttributeError"}

(***************************************************************************)
(* Properties of the story of build_pdf, under SpecCore.  The story exists *)
(* once the assembly has run to its end, whether or not the renderer then  *)
(* wrote the file.                                                         *)
(***************************************************************************)
StoryBuilt == phase \in {"assembled", "failed"} /\ built.kind \in RenderOutcomes

\* how many blocks of the story satisfy P
Count(st, P(_)) == Cardinality({i \in DOMAIN st : P(st[i])})

IsPageBreak(blk) == blk.b = "PageBreak"

IsQuestionParagraph(blk) == blk.b = "Paragraph" /\ blk.style \in {"Question", "Option"}

\* C7: the story of a validated quiz with N questions is: spacer, title,
\* subtitle, PageBreak, 'Questions' heading, spacer, then for the i-th
\* question the stem 'i. text', the options in the order A, B, C, D and a
\* spacer, then PageBreak, 'Solution Table' heading, Table: 2 PageBreaks and
\* 5N question paragraphs whatever the key order of the options; the sample
\* is accepted and gives 2 PageBreaks and 25 question paragraphs.
C7_StoryShape ==
    LET st == built.story
        qs == QuestionsOf(data)
        N  == Len(qs)
        letter == <<"A", "B", "C", "D">>
        at(i) == 6 + 6 * (i - 1)
    IN  /\ (Validated /\ data = SAMPLE_TEMPLATE) => verdict = Returned
        /\ StoryBuilt =>
            /\ Len(st) = 6 + 6 * N + 3
            /\ st[1].b = "Spacer"
            /\ st[2] = Paragraph(DictGet(data, "title"), "TitleCentered")
            /\ st[3] = Paragraph(DictGet(data, "subtitle"), "SubtitleCentered")
            /\ st[4] = PageBreak
            /\ st[5] = Paragraph(JStr("Questions"), "Heading2")
            /\ st[6].b = "Spacer"
            /\ \A i \in 1..N :
                /\ st[at(i) + 1] = Paragraph(JStr(IntStr(i) \o ". " \o PyStr(DictGet(qs[i], "text"))),
                                             "Question")
                /\ \A j \in 1..4 :
                     st[at(i) + 1 + j] =
                         Paragraph(JStr(letter[j] \o ") "
                                        \o PyStr(DictGet(DictGet(qs[i], "options"), letter[j]))),
                                   "Option")
                /\ st[at(i) + 6].b = "Spacer"
            /\ st[at(N + 1) + 1] = PageBreak
            /\ st[at(N + 1) + 2] = Paragraph(JStr("Solution Table"), "Heading2")
            /\ st[at(N + 1) + 3].b = "Table"
            /\ Count(st, IsPageBreak) = 2
            /\ Count(st, IsQuestionParagraph) = 5 * N
            /\ data = SAMPLE_TEMPLATE => Count(st, IsQuestionParagraph) = 25

\* a validated quiz of three questions, one with its options keyed in
\* another order than A, B, C, D, has been assembled
C7_Witness ==
    /\ phase = "assembled"
    /\ Len(QuestionsOf(data)) = 3
    /\ \E i \in 1..3 : DictGet(QuestionsOf(data)[i], "options").keys[1] = "D"
    /\ Count(built.story, IsQuestionParagraph) = 15

\* C8: the Table has 1 + len(solution_table) rows: the header '#', 'Answer',
\* 'Explanation', then per entry, in order, the display text of number,
\* answer and explanation, a missing field giving the empty text; only the
\* header for an empty solution_table, whatever the number of questions.
C8_TableRows ==
    LET st == built.story
        tbl == st[Len(st)]
        sol == DictGet(data, "solution_table").items
        cell(row, k) == IF k \in Keys(row) THEN PyStr(DictGet(row, k)) ELSE ""
    IN  StoryBuilt =>
            /\ tbl.b = "Table"
            /\ Len(tbl.rows) = 1 + Len(sol)
            /\ tbl.rows[1] = <<"#", "Answer", "Explanation">>
            /\ \A i \in DOMAIN sol :
                 tbl.rows[i + 1] = << cell(sol[i], "number"), cell(sol[i], "answer"),
                                      cell(sol[i], "explanation") >>

\* a table of two rows, one of them lacking a field, for a quiz of one question
C8_Witness ==
    /\ phase = "assembled"
    /\ Len(QuestionsOf(data)) = 1
    /\ Len(DictGet(data, "solution_table").items) = 2
    /\ \E i \in 1..2 : "explanation" \notin Keys(DictGet(data, "solution_table").items[i])
    /\ Len(built.story[Len(built.story)].rows) = 3

\* the table of an empty solution_table has been assembled: the header alone
C8_EmptyTableWitness ==
    /\ phase = "assembled"
    /\ DictGet(data, "solution_table") = JList(<<>>)
    /\ built.story[Len(built.story)].rows = << <<"#", "Answer", "Explanation">> >>

(***************************************************************************)
(* Properties of the handlers, under Spec.                                 *)
(***************************************************************************)
\* where a step of generate_pdf leaves the handler
GenerateSteps ==
    {"gen_empty", "gen_parse_error", "gen_schema_error", "gen_save_dialog", "gen_cancelled",
     "gen_render_error", "gen_saved"}

\* what the user sees of a message box whatever the exception was
Look(e) == <<e.icon, e.title, e.lead>>

\* C9: the parse error, the schema error and the render error of
\* generate_pdf are surfaced by message boxes of different kinds, not by one
\* shared handler; and opening a file of well-formed JSON raises no error,
\* also when the JSON is no quiz.
C9_DistinctKinds ==
    /\ \A a \in shown, b \in shown :
         (/\ a.handler = "generate_pdf" /\ b.handler = "generate_pdf"
          /\ {a.cause, b.cause} \subseteq {"parse", "schema", "render"}
          /\ a.cause # b.cause)
            => Look(a) # Look(b)
    /\ phase = "opened" => notice = NoNotice

\* C10: a handler that ends in an error leaves the text buffer as it was:
\* open_json_file when the file cannot be read or parsed, generate_pdf on
\* every path, before and after its save dialog.
C10_BufferKept ==
    [][phase' \in {"open_failed"} \cup GenerateSteps => buffer' = buffer]_vars

\* a file failed to open after another text than the sample had been loaded
C10_Witness ==
    /\ phase = "open_failed"
    /\ buffer = DocumentText[JDict(<<"title">>, <<JStr("T")>>)]
    /\ notice.icon = "error"

=============================================================================
